---- MODULE Spec2Model ----
(***************************************************************************)
(* The asynchronous translation protocol of the repository: the client     *)
(* (src/python_translator.py), the ingestion handler                       *)
(* (src/lambda_function/lambda_function.py) and the retrieval handler      *)
(* (src/retrieval_function/lambda_function.py), over two object stores and *)
(* the translation service.                                                *)
(*                                                                         *)
(* Strings are sequences of characters (texts) or of tokens (storage       *)
(* keys); a Python dict is a record, an optional dict key a has_* flag or  *)
(* membership in the record's "fields" set.                                *)
(***************************************************************************)
EXTENDS Integers, Sequences, FiniteSets, TLC

VARIABLES
    last,           \* the last call of process_translation / translate_direct
    requestStore,   \* request bucket: key -> object
    responseStore,  \* response bucket: key -> object
    now,            \* wall clock, in seconds
    inv,            \* the running / last invocation of the ingestion handler
    poll,           \* the running / last wait_for_translation_result call
    http            \* the last invocation of the retrieval handler

vars == <<last, requestStore, responseStore, now, inv, poll, http>>

\* ------------------------------------------------------------ bounds
MaxItems == 2       \* text items per request
MaxBatch == 2       \* records per trigger event
MaxTime == 1        \* the clock of the ingestion specifications stops here
MaxTimeout == 2     \* largest timeout passed to wait_for_translation_result
MaxPoll == 2        \* largest poll interval passed to it
MaxDelay == 1       \* longest duration of one store call of the poller
MaxObjects == 2     \* result objects that arrive while a client waits
MaxInvocations == 2 \* concurrent invocations of the ingestion handler

\* ------------------------------------------------------------ strings
\* What str.strip() removes (the ASCII whitespace of the samples).
Whitespace == {" ", "\t", "\n"}

RECURSIVE LStrip(_)
LStrip(s) == IF s # <<>> /\ Head(s) \in Whitespace THEN LStrip(Tail(s)) ELSE s

RECURSIVE RStrip(_)
RStrip(s) ==
    IF s # <<>> /\ s[Len(s)] \in Whitespace THEN RStrip(SubSeq(s, 1, Len(s) - 1)) ELSE s

\* str.strip()
Strip(s) == RStrip(LStrip(s))

\* The texts the inputs are drawn from: empty, blank, plain, padded.
Texts == {<<>>, <<" ">>, <<"\t", " ">>, <<"a">>, <<" ", "b">>, <<"a", " ">>}

\* ------------------------------------------------------------ requests
\* A text item of a request: a dict {'id':, 'text':} (either key optional) or a
\* bare string.  text_is_str is FALSE for a 'text' that is no string (a number).
MkItem(kind, has_text, text_is_str, has_id, id, text) ==
    [kind |-> kind, has_text |-> has_text, text_is_str |-> text_is_str,
     has_id |-> has_id, id |-> id, text |-> text]

DictItem(id, text) == MkItem("dict", TRUE, TRUE, TRUE, id, text)
DictItemNoId(text) == MkItem("dict", TRUE, TRUE, FALSE, 0, text)
StrItem(text) == MkItem("str", FALSE, TRUE, FALSE, 0, text)
DictItemNoText == MkItem("dict", FALSE, TRUE, TRUE, 5, <<>>)
DictItemNumText == MkItem("dict", TRUE, FALSE, TRUE, 5, <<>>)

Items ==
    {DictItem(7, t) : t \in Texts} \cup {StrItem(t) : t \in {<<>>, <<"a">>}}
        \cup {DictItemNoId(<<" ", "b">>), DictItemNoText, DictItemNumText}

\* Sequences over S of length lo..hi.
SeqsOf(S, lo, hi) == UNION {[1..n -> S] : n \in lo..hi}

\* The 'texts' value of a request: a list of items, or something that is no list.
TextsList(items) == [is_list |-> TRUE, items |-> items]
TextsNoList == [is_list |-> FALSE, items |-> <<>>]

RequestFields == {"request_id", "source_language", "target_language", "texts"}

\* A decoded request: the dict's keys and their values.
MkRequest(fields, request_id, texts) ==
    [fields |-> fields, request_id |-> request_id, source_language |-> "en",
     target_language |-> "es", texts |-> texts]

\* ------------------------------------------------------------ translation service
\* One reply of translate_client.translate_text: an exception, or a response whose
\* 'TranslatedText' is any string, the empty one included.
AdapterReplies ==
    {[ok |-> FALSE, text |-> <<>>], [ok |-> TRUE, text |-> <<>>],
     [ok |-> TRUE, text |-> <<"x">>]}

\* The replies the service gives to the calls of one run, by item position.
Oracles(n) == [1..n -> AdapterReplies]

\* ------------------------------------------------------------ process_translation
\* One entry of 'translations'.
Entry(id, original, translated, count) ==
    [id |-> id, original_text |-> original, translated_text |-> translated,
     character_count |-> count]

\* str(text_item) of an item that is no dict with a 'text': the string itself, or
\* the repr of the dict, which is never blank.
StrOf(item) == IF item.kind = "str" THEN item.text ELSE <<"{", "}">>

\* Variant of TextToTranslate that trims the text of a dict item.
MutTextToTranslateStrips(item) ==
    IF item.kind = "dict" /\ item.has_text THEN Strip(item.text) ELSE StrOf(item)

\* text_to_translate and text_id of lines 113-118; n is len(translated_texts).
TextToTranslate(item) ==
    IF item.kind = "dict" /\ item.has_text THEN item.text ELSE StrOf(item)

TextId(item, n) ==
    IF item.kind = "dict" /\ item.has_text /\ item.has_id THEN item.id ELSE n

\* Whether text_to_translate.strip() can be evaluated (the value is a string).
CanStrip(item) == ~(item.kind = "dict" /\ item.has_text) \/ item.text_is_str

\* The accumulators of the loop: the entries, the running total, the calls made to
\* the translation service (item position and text) and whether an exception left
\* the loop.
LoopStart == [translated_texts |-> <<>>, total_characters |-> 0, calls |-> <<>>,
              raised |-> FALSE]

\* The entry appended for a blank item (lines 122-127, 233-238).
BlankEntry(id, text) == Entry(id, text, <<>>, 0)

\* Variant of Translated that leaves total_characters alone.
MutTranslatedDropsCount(acc, i, id, text, reply) ==
    [acc EXCEPT !.translated_texts = Append(@, Entry(id, text, reply.text, Len(text))),
                !.calls = Append(@, [item |-> i, text |-> text])]

\* The state of the loop after a successful translate_text (lines 139-148, 248-256).
Translated(acc, i, id, text, reply) ==
    [acc EXCEPT !.translated_texts = Append(@, Entry(id, text, reply.text, Len(text))),
                !.total_characters = @ + Len(text),
                !.calls = Append(@, [item |-> i, text |-> text])]

\* The state of the loop after translate_text raised: the call was made, nothing
\* was appended, the loop is left.
Raised(acc, i, text) ==
    [acc EXCEPT !.calls = Append(@, [item |-> i, text |-> text]), !.raised = TRUE]

\* Variant of IsBlank that takes only the empty string as blank.
MutIsBlankOnlyEmpty(text) == text = <<>>

\* "if not text.strip()": the item is skipped without a call.
IsBlank(text) == Strip(text) = <<>>

\* The loop of process_translation from item i on (lines 112-150).
RECURSIVE ProcessLoop(_, _, _, _)
ProcessLoop(items, oracle, i, acc) ==
    IF i > Len(items) THEN acc
    ELSE LET item == items[i]
             text == TextToTranslate(item)
             id == TextId(item, Len(acc.translated_texts))
         IN  IF ~CanStrip(item) THEN [acc EXCEPT !.raised = TRUE]
             ELSE IF IsBlank(text)
                 THEN ProcessLoop(items, oracle, i + 1,
                          [acc EXCEPT !.translated_texts = Append(@, BlankEntry(id, text))])
             ELSE IF ~oracle[i].ok THEN Raised(acc, i, text)
             ELSE ProcessLoop(items, oracle, i + 1, Translated(acc, i, id, text, oracle[i]))

\* What a call leaves behind: whether it returned, the result, the service calls.
Outcome(ok, result, calls) == [ok |-> ok, result |-> result, calls |-> calls]

NoResult == [none |-> TRUE]

\* Variant of ProcessTranslation that returns the entries made before a failure.
MutProcessTranslationPartial(request, oracle, t) ==
    LET acc == ProcessLoop(request.texts.items, oracle, 1, LoopStart)
    IN  Outcome(TRUE,
                [translation_metadata |->
                     [source_language |-> request.source_language,
                      target_language |-> request.target_language,
                      total_texts |-> Len(request.texts.items),
                      total_characters |-> acc.total_characters,
                      timestamp |-> t,
                      processing_status |-> "completed"],
                 translations |-> acc.translated_texts,
                 original_request |-> request],
                acc.calls)

\* process_translation(translation_request) at time t, the service replying by
\* oracle: the exception is re-raised (line 154), else the result is built.
ProcessTranslation(request, oracle, t) ==
    LET acc == ProcessLoop(request.texts.items, oracle, 1, LoopStart)
    IN  IF acc.raised THEN Outcome(FALSE, NoResult, acc.calls)
        ELSE Outcome(TRUE,
                     [translation_metadata |->
                          [source_language |-> request.source_language,
                           target_language |-> request.target_language,
                           total_texts |-> Len(request.texts.items),
                           total_characters |-> acc.total_characters,
                           timestamp |-> t,
                           processing_status |-> "completed"],
                      translations |-> acc.translated_texts,
                      original_request |-> request],
                     acc.calls)

\* ------------------------------------------------------------ translate_direct
\* Variant of DirectLoop that skips a text the service failed on and goes on.
RECURSIVE MutDirectLoopSkips(_, _, _, _)
MutDirectLoopSkips(texts, oracle, i, acc) ==
    IF i > Len(texts) THEN acc
    ELSE LET text == texts[i]
         IN  IF IsBlank(text)
                 THEN MutDirectLoopSkips(texts, oracle, i + 1,
                          [acc EXCEPT !.translated_texts = Append(@, BlankEntry(i - 1, text))])
             ELSE IF ~oracle[i].ok
                 THEN MutDirectLoopSkips(texts, oracle, i + 1,
                          [acc EXCEPT !.calls = Append(@, [item |-> i, text |-> text])])
             ELSE MutDirectLoopSkips(texts, oracle, i + 1,
                                     Translated(acc, i, i - 1, text, oracle[i]))

\* The loop of translate_direct from text i on (lines 231-256); the id is the
\* 0-based position.
RECURSIVE DirectLoop(_, _, _, _)
DirectLoop(texts, oracle, i, acc) ==
    IF i > Len(texts) THEN acc
    ELSE LET text == texts[i]
         IN  IF IsBlank(text)
                 THEN DirectLoop(texts, oracle, i + 1,
                          [acc EXCEPT !.translated_texts = Append(@, BlankEntry(i - 1, text))])
             ELSE IF ~oracle[i].ok THEN Raised(acc, i, text)
             ELSE DirectLoop(texts, oracle, i + 1, Translated(acc, i, i - 1, text, oracle[i]))

\* translate_direct(texts, source_language, target_language) at time t.
TranslateDirect(texts, source_language, target_language, oracle, t) ==
    LET acc == DirectLoop(texts, oracle, 1, LoopStart)
    IN  IF acc.raised THEN Outcome(FALSE, NoResult, acc.calls)
        ELSE Outcome(TRUE,
                     [translation_metadata |->
                          [source_language |-> source_language,
                           target_language |-> target_language,
                           total_texts |-> Len(texts),
                           total_characters |-> acc.total_characters,
                           timestamp |-> t,
                           processing_status |-> "completed",
                           method |-> "direct"],
                      translations |-> acc.translated_texts],
                     acc.calls)

\* ------------------------------------------------------------ create_translation_request
\* The optional request_id argument: None, or a string.
NoRequestId == [given |-> FALSE, value |-> <<>>]
RequestIdArg(value) == [given |-> TRUE, value |-> value]

\* "req_" and the current time to the second (line 62).
GeneratedRequestId(t) == <<"req_", ToString(t)>>

\* The keys of the dict built at lines 72-82.
CreatedFields == RequestFields \cup {"timestamp", "client_info"}

\* Variant of CreateTranslationRequest that numbers the texts from 1.
MutCreateOneBased(texts, source_language, target_language, request_id, t) ==
    [MkRequest(CreatedFields,
               IF request_id.given /\ request_id.value # <<>> THEN request_id.value
               ELSE GeneratedRequestId(t),
               TextsList([i \in 1..Len(texts) |-> DictItem(i, texts[i])]))
        EXCEPT !.source_language = source_language,
               !.target_language = target_language]

\* create_translation_request(texts, source_language, target_language, request_id)
\* at time t: "if not request_id" takes None and the empty string alike.
CreateTranslationRequest(texts, source_language, target_language, request_id, t) ==
    [MkRequest(CreatedFields,
               IF request_id.given /\ request_id.value # <<>> THEN request_id.value
               ELSE GeneratedRequestId(t),
               TextsList([i \in 1..Len(texts) |-> DictItem(i - 1, texts[i])]))
        EXCEPT !.source_language = source_language,
               !.target_language = target_language]

\* ------------------------------------------------------------ object stores
\* A bucket is a set of objects, one per key.  A key is a sequence of tokens; a
\* body is the stored text: undecodable ("garbage"), or the JSON of a dict or of
\* something else ("number").
Object(key, body, t) == [key |-> key, body |-> body, last_modified |-> t]

Body(kind, value) == [kind |-> kind, value |-> value]

HasKey(store, key) == \E o \in store : o.key = key

GetObject(store, key) == CHOOSE o \in store : o.key = key

\* Variant of PutObject that empties the bucket first.
MutPutObjectClears(store, key, body, t) == {Object(key, body, t)}

\* put_object: the object at the key is replaced.
PutObject(store, key, body, t) ==
    {o \in store : o.key # key} \cup {Object(key, body, t)}

IsPrefix(p, s) == Len(p) <= Len(s) /\ SubSeq(s, 1, Len(p)) = p

\* list_objects_v2(Prefix=prefix)['Contents']
ListObjects(store, prefix) == {o \in store : IsPrefix(prefix, o.key)}

\* ------------------------------------------------------------ ingestion handler
Extensions == {".json", ".txt"}

\* os.path.splitext(input_key)[0]
SplitExtRoot(key) ==
    IF key # <<>> /\ key[Len(key)] \in Extensions THEN SubSeq(key, 1, Len(key) - 1)
    ELSE key

\* Variant of GenerateOutputKey that leaves the timestamp out.
MutGenerateOutputKeyNoTime(input_key, t) ==
    SplitExtRoot(input_key) \o <<"_translated", ".json">>

\* Variant of GenerateOutputKey that keeps the extension of the input key.
MutGenerateOutputKeyKeepsExt(input_key, t) ==
    input_key \o <<"_translated", "_", ToString(t), ".json">>

\* generate_output_key(input_key) at time t (second resolution).
GenerateOutputKey(input_key, t) ==
    SplitExtRoot(input_key) \o <<"_translated", "_", ToString(t), ".json">>

\* Variant of ValidateTranslationRequest that does not ask for target_language.
MutValidateIgnoresTarget(request) ==
    /\ {"source_language", "texts"} \subseteq request.fields
    /\ request.texts.is_list
    /\ Len(request.texts.items) # 0

\* validate_translation_request(request_data), request_data a dict.
ValidateTranslationRequest(request) ==
    /\ {"source_language", "target_language", "texts"} \subseteq request.fields
    /\ request.texts.is_list
    /\ Len(request.texts.items) # 0

\* One record of the trigger event; a record that is not well formed lacks
\* ['s3']['bucket']['name'] or ['s3']['object']['key'].
Record(wellformed, key) == [wellformed |-> wellformed, key |-> key]

\* What the store and the services answer while one record is handled: whether
\* get_object and put_object succeed, and the replies of translate_text.
RecordOracle(get_ok, put_ok, adapter) ==
    [get_ok |-> get_ok, put_ok |-> put_ok, adapter |-> adapter]

\* What handling one record leaves behind: the outcome, the calls made to the
\* translation service, the key written (<<>> for none), the response store.
Handled(outcome, calls, wrote, store) ==
    [outcome |-> outcome, calls |-> calls, wrote |-> wrote, store |-> store]

\* The body of the try of lines 34-59 for one well-formed record.
HandleObject(key, oracle, reqStore, respStore, t) ==
    IF ~(oracle.get_ok /\ HasKey(reqStore, key))
        THEN Handled("get_failed", <<>>, <<>>, respStore)
    ELSE LET body == GetObject(reqStore, key).body IN
    IF body.kind = "garbage" THEN Handled("parse_failed", <<>>, <<>>, respStore)
    ELSE IF body.kind # "dict" THEN Handled("validate_raised", <<>>, <<>>, respStore)
    ELSE IF ~ValidateTranslationRequest(body.value)
        THEN Handled("invalid", <<>>, <<>>, respStore)
    ELSE LET out == ProcessTranslation(body.value, oracle.adapter, t) IN
    IF ~out.ok THEN Handled("translate_failed", out.calls, <<>>, respStore)
    ELSE IF ~oracle.put_ok THEN Handled("put_failed", out.calls, <<>>, respStore)
    ELSE Handled("written", out.calls, GenerateOutputKey(key, t),
                 PutObject(respStore, GenerateOutputKey(key, t),
                           Body("dict", out.result), t))

\* ------------------------------------------------------------ idle values
NoRequest == MkRequest({}, <<>>, TextsList(<<>>))
NoOutcome == Outcome(FALSE, NoResult, <<>>)
EmptyStore == {}
NoBody == Body("none", NoResult)
IdleLast == [op |-> "none", done |-> TRUE, request |-> NoRequest, texts |-> <<>>,
             oracle |-> <<>>, out |-> NoOutcome]
IdleInv == [pc |-> "idle", env_ok |-> TRUE, has_records |-> TRUE, records |-> <<>>,
            i |-> 1, status |-> 0, processed_files |-> 0, log |-> <<>>]
IdlePoll == [pc |-> "idle", request_id |-> <<>>, timeout |-> 0, interval |-> 0,
             start |-> 0, polls |-> 0, errors |-> 0, delay |-> 0, ret |-> "pending",
             result_key |-> <<>>, result |-> NoBody]
NoEvent == [path |-> "missing", request_id |-> <<>>]
IdleHttp == [pc |-> "idle", seq |-> 0, event |-> NoEvent, fetch_ok |-> TRUE,
             again |-> FALSE, stale |-> FALSE,
             raised |-> FALSE, status |-> 0, headers |-> {}, message |-> "",
             content |-> NoBody, reads |-> 0]

\* ------------------------------------------------------------ the two translation loops
\* The requests validate_translation_request accepts with a list of 1..MaxItems
\* items, and the lists of strings translate_direct is given.
ValidRequests ==
    {MkRequest(RequestFields, <<"r1">>, TextsList(items)) :
        items \in SeqsOf(Items, 1, MaxItems)}

DirectInputs == SeqsOf(Texts, 0, MaxItems)

Pending(op, request, texts) ==
    [op |-> op, done |-> FALSE, request |-> request, texts |-> texts,
     oracle |-> <<>>, out |-> NoOutcome]

\* The arguments create_translation_request is called with.
CreateArgs ==
    [source_language : {"en", "fr"}, target_language : {"es"},
     request_id : {NoRequestId, RequestIdArg(<<>>), RequestIdArg(<<"r1">>)}]

PendingCreate(texts, args) ==
    Pending("create_translation_request", NoRequest, texts) @@ [args |-> args]

\* The same texts are to be translated directly and through a request built by
\* create_translation_request; out2 is what process_translation leaves behind.
PendingBoth(texts, args) ==
    Pending("direct_and_request", NoRequest, texts) @@ [args |-> args, out2 |-> NoOutcome]

InitTranslate ==
    /\ last \in {Pending("process_translation", r, <<>>) : r \in ValidRequests}
                    \cup {Pending("translate_direct", NoRequest, t) : t \in DirectInputs}
                    \cup {PendingCreate(t, a) : t \in DirectInputs, a \in CreateArgs}
                    \cup {PendingBoth(t, a) : t \in DirectInputs, a \in CreateArgs}
    /\ requestStore = EmptyStore
    /\ responseStore = EmptyStore
    /\ now = 0
    /\ inv = IdleInv
    /\ poll = IdlePoll
    /\ http = IdleHttp

\* process_translation(request) is called and returns or raises.
CallProcessTranslation ==
    /\ last.op = "process_translation" /\ ~last.done
    /\ \E oracle \in Oracles(Len(last.request.texts.items)) :
           last' = [last EXCEPT !.done = TRUE, !.oracle = oracle,
                                !.out = ProcessTranslation(last.request, oracle, now)]
    /\ UNCHANGED <<requestStore, responseStore, now, inv, poll, http>>

\* translate_direct(texts, "en", "es") is called and returns or raises.
CallTranslateDirect ==
    /\ last.op = "translate_direct" /\ ~last.done
    /\ \E oracle \in Oracles(Len(last.texts)) :
           last' = [last EXCEPT !.done = TRUE, !.oracle = oracle,
                                !.out = TranslateDirect(last.texts, "en", "es", oracle, now)]
    /\ UNCHANGED <<requestStore, responseStore, now, inv, poll, http>>

\* create_translation_request(texts, source_language, target_language, request_id)
\* is called and returns the request.
CallCreateTranslationRequest ==
    /\ last.op = "create_translation_request" /\ ~last.done
    /\ last' = [last EXCEPT
                    !.done = TRUE,
                    !.out = Outcome(TRUE,
                                    CreateTranslationRequest(last.texts,
                                        last.args.source_language,
                                        last.args.target_language,
                                        last.args.request_id, now),
                                    <<>>)]
    /\ UNCHANGED <<requestStore, responseStore, now, inv, poll, http>>

\* translate_direct(texts, s, t) is called, and process_translation is called on
\* the request create_translation_request builds from the same texts, s and t;
\* the translation service answers both by the same oracle.
CallDirectAndRequest ==
    /\ last.op = "direct_and_request" /\ ~last.done
    /\ \E oracle \in Oracles(Len(last.texts)) :
           LET request == CreateTranslationRequest(last.texts, last.args.source_language,
                              last.args.target_language, last.args.request_id, now)
           IN  last' = [last EXCEPT
                           !.done = TRUE, !.oracle = oracle, !.request = request,
                           !.out = TranslateDirect(last.texts, last.args.source_language,
                                                   last.args.target_language, oracle, now),
                           !.out2 = ProcessTranslation(request, oracle, now)]
    /\ UNCHANGED <<requestStore, responseStore, now, inv, poll, http>>

NextTranslate ==
    \/ CallProcessTranslation \/ CallTranslateDirect \/ CallCreateTranslationRequest
    \/ CallDirectAndRequest

SpecTranslate == InitTranslate /\ [][NextTranslate]_vars

\* ------------------------------------------------------------ lambda_handler (ingestion)
\* The request bucket the batches are run against: two valid requests (the second
\* with a blank item), the invalid ones validate_translation_request rejects, a
\* body that is no JSON and a JSON body that is no dict.
KeyOf(name) == <<name, ".json">>
RequestKey(request_id) == <<"translation_request_">> \o request_id \o <<".json">>

ReqR1 == MkRequest(RequestFields, <<"r1">>,
                   TextsList(<<DictItem(7, <<"a">>), DictItemNoId(<<" ", "b">>)>>))
ReqR2 == MkRequest(RequestFields, <<"r2">>,
                   TextsList(<<DictItem(7, <<" ">>), StrItem(<<"a">>)>>))

SampleRequestStore ==
    {Object(RequestKey(<<"r1">>), Body("dict", ReqR1), 0),
     Object(RequestKey(<<"r2">>), Body("dict", ReqR2), 0),
     Object(KeyOf("no_target"),
            Body("dict", [ReqR1 EXCEPT !.fields = @ \ {"target_language"}]), 0),
     Object(KeyOf("no_source"),
            Body("dict", [ReqR1 EXCEPT !.fields = @ \ {"source_language"}]), 0),
     Object(KeyOf("no_texts"),
            Body("dict", [ReqR1 EXCEPT !.fields = {"request_id", "source_language"}]), 0),
     Object(KeyOf("empty_texts"), Body("dict", [ReqR1 EXCEPT !.texts = TextsList(<<>>)]), 0),
     Object(KeyOf("texts_no_list"), Body("dict", [ReqR1 EXCEPT !.texts = TextsNoList]), 0),
     Object(KeyOf("invalid_json"), Body("garbage", NoRequest), 0),
     Object(KeyOf("number"), Body("number", NoRequest), 0)}

\* The records an event is made of: one per stored object, one for a key with no
\* object, and one that is not well formed.
EventRecords ==
    {Record(TRUE, o.key) : o \in SampleRequestStore}
        \cup {Record(TRUE, KeyOf("absent")), Record(FALSE, <<>>)}

\* The answers that can matter for the object at key: the replies of the
\* translation service only for a request that gets as far as process_translation.
RecordOracles(key, reqStore) ==
    LET valid == /\ HasKey(reqStore, key)
                 /\ GetObject(reqStore, key).body.kind = "dict"
                 /\ ValidateTranslationRequest(GetObject(reqStore, key).body.value)
    IN  {RecordOracle(FALSE, TRUE, <<>>)}
            \cup IF valid
                     THEN {RecordOracle(TRUE, p, a) :
                              p \in BOOLEAN,
                              a \in Oracles(Len(GetObject(reqStore, key).body.value.texts.items))}
                     ELSE {RecordOracle(TRUE, TRUE, <<>>)}

\* What the invocation did with one record, and the answers it got.
LogEntry(outcome, calls, wrote, oracle) ==
    [outcome |-> outcome, calls |-> calls, wrote |-> wrote, oracle |-> oracle]

Invocation(env_ok, has_records, records) ==
    [pc |-> "start", env_ok |-> env_ok, has_records |-> has_records, records |-> records,
     i |-> 1, status |-> 0, processed_files |-> 0, log |-> <<>>]

InitIngest ==
    /\ inv \in {Invocation(e, TRUE, rs) : e \in BOOLEAN, rs \in SeqsOf(EventRecords, 0, MaxBatch)}
                   \cup {Invocation(TRUE, FALSE, <<>>)}
    /\ requestStore = SampleRequestStore
    /\ responseStore = EmptyStore
    /\ now = 0
    /\ last = IdleLast
    /\ poll = IdlePoll
    /\ http = IdleHttp

\* Lines 20-26: the bucket names are read from the environment and the iteration
\* over event['Records'] begins; a KeyError here is caught at line 69.
HandlerStart ==
    /\ inv.pc = "start"
    /\ inv' = IF inv.env_ok /\ inv.has_records
                  THEN [inv EXCEPT !.pc = "loop"]
                  ELSE [inv EXCEPT !.pc = "done", !.status = 500]
    /\ UNCHANGED <<last, requestStore, responseStore, now, poll, http>>

\* Lines 26-59, one iteration: a record that is not well formed raises at line 28
\* or 29, outside the inner try, and ends the invocation at line 69; any other
\* record is handled and the loop goes on.
HandlerRecord ==
    /\ inv.pc = "loop" /\ inv.i <= Len(inv.records)
    /\ LET record == inv.records[inv.i] IN
       IF ~record.wellformed
           THEN /\ inv' = [inv EXCEPT !.pc = "done", !.status = 500,
                                      !.log = Append(@, LogEntry("aborted", <<>>, <<>>,
                                                               RecordOracle(TRUE, TRUE, <<>>)))]
                /\ UNCHANGED responseStore
           ELSE \E oracle \in RecordOracles(record.key, requestStore) :
                    LET h == HandleObject(record.key, oracle, requestStore, responseStore, now)
                    IN  /\ inv' = [inv EXCEPT !.i = @ + 1,
                                              !.log = Append(@, LogEntry(h.outcome, h.calls,
                                                               h.wrote, oracle))]
                        /\ responseStore' = h.store
    /\ UNCHANGED <<last, requestStore, now, poll, http>>

\* Lines 61-67: the loop is over and success is reported.
HandlerReturn ==
    /\ inv.pc = "loop" /\ inv.i > Len(inv.records)
    /\ inv' = [inv EXCEPT !.pc = "done", !.status = 200,
                          !.processed_files = Len(inv.records)]
    /\ UNCHANGED <<last, requestStore, responseStore, now, poll, http>>

\* A second passes between two records of the batch.
TickIngest ==
    /\ inv.pc = "loop" /\ inv.i > 1 /\ inv.i <= Len(inv.records) /\ now < MaxTime
    /\ now' = now + 1
    /\ UNCHANGED <<last, requestStore, responseStore, inv, poll, http>>

NextIngest == HandlerStart \/ HandlerRecord \/ HandlerReturn \/ TickIngest

SpecIngest == InitIngest /\ [][NextIngest]_vars

\* ------------------------------------------------------------ lambda_handler (retrieval)
\* The event of the retrieval handler: 'pathParameters' is missing, is null, is a
\* dict without 'request_id' ("empty"), or holds the request_id ("present").
Event(path, request_id) == [path |-> path, request_id |-> request_id]

CorsHeaders ==
    {<<"Content-Type", "application/json">>, <<"Access-Control-Allow-Origin", "*">>}

\* A returned response: the status, the headers and the body, which is either a
\* JSON message or the content of the stored object; reads counts the get_object
\* calls made.
Response(status, message, content, reads) ==
    [raised |-> FALSE, status |-> status, headers |-> CorsHeaders, message |-> message,
     content |-> content, reads |-> reads]

\* The handler left by an exception it does not catch: there is no response.
Uncaught(reads) ==
    [raised |-> TRUE, status |-> 0, headers |-> {}, message |-> "", content |-> NoBody,
     reads |-> reads]

\* Lines 16-26: event['pathParameters']['request_id'].  A missing key raises the
\* KeyError that is caught; subscripting None raises a TypeError, which is not.
PathLookup(event) ==
    CASE event.path = "present" -> "ok"
      [] event.path = "null" -> "TypeError"
      [] OTHER -> "KeyError"

\* Variant of Fetch that reports a missing object as a server error.
MutFetchNotFoundIs500(key, fetch_ok, store) ==
    IF ~fetch_ok \/ ~HasKey(store, key)
        THEN Response(500, "An internal server error occurred.", NoBody, 1)
    ELSE Response(200, "", GetObject(store, key).body, 1)

\* Variant of Fetch that serves a stored object once and reports it missing after.
MutFetchServesOnce(key, fetch_ok, store) ==
    IF ~fetch_ok THEN Response(500, "An internal server error occurred.", NoBody, 1)
    ELSE IF ~HasKey(store, key) \/ http.status = 200
        THEN Response(404, "Translation not found or still processing.", NoBody, 1)
    ELSE Response(200, "", GetObject(store, key).body, 1)

\* Lines 28-66: the fetch of the key and the mapping of its outcome.  fetch_ok is
\* FALSE when get_object (or the read and decode of the body) fails otherwise
\* than with NoSuchKey.
Fetch(key, fetch_ok, store) ==
    IF ~fetch_ok THEN Response(500, "An internal server error occurred.", NoBody, 1)
    ELSE IF ~HasKey(store, key)
        THEN Response(404, "Translation not found or still processing.", NoBody, 1)
    ELSE Response(200, "", GetObject(store, key).body, 1)

\* lambda_handler(event, context) of the retrieval function.
RetrievalHandler(event, fetch_ok, store) ==
    CASE PathLookup(event) = "KeyError" ->
             Response(400, "Error: Missing request_id in path.", NoBody, 0)
      [] PathLookup(event) = "TypeError" -> Uncaught(0)
      [] OTHER -> Fetch(event.request_id, fetch_ok, store)

\* The result objects that arrive in the response bucket, and the keys asked for:
\* theirs, a request id, and a key with no object.
SampleResults ==
    {Object(GenerateOutputKey(RequestKey(<<"r1">>), 0),
            Body("dict", ProcessTranslation(ReqR1, <<[ok |-> TRUE, text |-> <<"x">>],
                                                     [ok |-> TRUE, text |-> <<"x">>]>>, 0).result), 0),
     Object(GenerateOutputKey(RequestKey(<<"r2">>), 1),
            Body("dict", ProcessTranslation(ReqR2, <<[ok |-> TRUE, text |-> <<>>],
                                                     [ok |-> TRUE, text |-> <<"x">>]>>, 1).result), 1),
     Object(<<"r2">>, Body("garbage", NoResult), 1)}

RetrievalEvents ==
    {Event("missing", <<>>), Event("null", <<>>), Event("empty", <<>>)}
        \cup {Event("present", k) : k \in {o.key : o \in SampleResults} \cup {<<"r1">>, <<>>}}

InitRetrieve ==
    /\ http = IdleHttp
    /\ responseStore = EmptyStore
    /\ requestStore = EmptyStore
    /\ now = 0
    /\ last = IdleLast
    /\ inv = IdleInv
    /\ poll = IdlePoll

\* The retrieval handler is invoked and returns (or raises).
\* The record of an invocation: the event, whether the fetch can succeed, whether
\* the call repeats the previous event with no write to the store since
\* ("again"), and what the handler returned.  "stale" is set by a write to the
\* response store after the call.
Invoked(event, fetch_ok, again) ==
    [pc |-> "done", seq |-> 1 - http.seq, event |-> event, fetch_ok |-> fetch_ok,
     again |-> again, stale |-> FALSE]
        @@ RetrievalHandler(event, fetch_ok, responseStore)

RetrieveOf(events) ==
    /\ \E event \in events, fetch_ok \in BOOLEAN :
           http' = Invoked(event, fetch_ok, FALSE)
    /\ UNCHANGED <<last, requestStore, responseStore, now, inv, poll>>

\* The handler is invoked with the event of the previous call, the response store
\* not having been written since.
RetrieveAgain ==
    /\ http.pc = "done" /\ ~http.stale
    /\ \E fetch_ok \in BOOLEAN : http' = Invoked(http.event, fetch_ok, TRUE)
    /\ UNCHANGED <<last, requestStore, responseStore, now, inv, poll>>

Retrieve == RetrieveOf(RetrievalEvents)

\* An ingestion uploads a result object.
ResultArrives ==
    /\ \E o \in SampleResults :
           /\ ~HasKey(responseStore, o.key)
           /\ responseStore' = PutObject(responseStore, o.key, o.body, o.last_modified)
    /\ http' = [http EXCEPT !.stale = TRUE]
    /\ UNCHANGED <<last, requestStore, now, inv, poll>>

NextRetrieve == Retrieve \/ RetrieveAgain \/ ResultArrives

SpecRetrieve == InitRetrieve /\ [][NextRetrieve]_vars

\* ------------------------------------------------------------ wait_for_translation_result
\* The prefix the client lists (lines 142-145).
ResultPrefix(request_id) == <<"translation_request_">> \o request_id \o <<"_translated">>

\* Variant of StillWaiting that never reaches the deadline.
MutStillWaitingNoDeadline(elapsed, timeout) == TRUE

\* "while time.time() - start_time < timeout" (line 139).
StillWaiting(elapsed, timeout) == elapsed < timeout

\* Variant of Latest that takes an object none is older than.
MutLatestOldest(objects) ==
    {o \in objects : \A p \in objects : p.last_modified >= o.last_modified}

\* max(response['Contents'], key=LastModified): an object none is newer than.
Latest(objects) == {o \in objects : \A p \in objects : p.last_modified <= o.last_modified}

\* json.loads of a stored body succeeds.
Parses(body) == body.kind # "garbage"

\* Variant of SleepEnds that sleeps two intervals.
MutSleepEndsTwice(t, interval) == t + 2 * interval

\* The clock when time.sleep(poll_interval) returns.
SleepEnds(t, interval) == t + interval

\* wait_for_translation_result(request_id, timeout, poll_interval) is called
\* (line 137).
WaitStart(timeouts, intervals) ==
    /\ poll.pc = "idle"
    /\ \E timeout \in timeouts, interval \in intervals :
           poll' = [poll EXCEPT !.pc = "check", !.request_id = <<"r1">>,
                                !.timeout = timeout, !.interval = interval,
                                !.start = now]
    /\ UNCHANGED <<last, requestStore, responseStore, now, inv, http>>

PollStart == WaitStart(0..MaxTimeout, (-1)..MaxPoll)

\* Line 139: the loop goes on before the deadline; at it, None is returned
\* (lines 164-165).
PollCheck ==
    /\ poll.pc = "check"
    /\ poll' = IF StillWaiting(now - poll.start, poll.timeout)
                   THEN [poll EXCEPT !.pc = "list"]
                   ELSE [poll EXCEPT !.pc = "done", !.ret = "timeout"]
    /\ UNCHANGED <<last, requestStore, responseStore, now, inv, http>>

\* Variant of AfterFailure that lets the exception leave the call.
MutAfterFailureRaises(polled) ==
    [polled EXCEPT !.pc = "done", !.ret = "raised", !.errors = @ + 1]

\* Lines 160-162: an exception of the poll is logged and the call goes to the
\* sleep of line 162 ("retry").
AfterFailure(polled) == [polled EXCEPT !.pc = "retry", !.errors = @ + 1]

\* Lines 141-155, one poll taking d seconds: the listing, and when it has
\* contents the fetch and parse of the latest object, which is returned; a
\* failure of either ends in the except of line 160.  The clock moves on during
\* an iteration that does not sleep.
PollList ==
    /\ poll.pc = "list"
    /\ \E list_ok \in BOOLEAN, get_ok \in BOOLEAN,
          d \in (IF poll.interval = 0 THEN 1 ELSE 0)..MaxDelay :
           LET found == ListObjects(responseStore, ResultPrefix(poll.request_id))
               polled == [poll EXCEPT !.polls = @ + 1, !.delay = @ + d]
           IN  /\ now' = now + d
               /\ IF ~list_ok THEN poll' = AfterFailure(polled)
                  ELSE IF found = {} THEN poll' = [polled EXCEPT !.pc = "sleep"]
                  ELSE \E o \in Latest(found) :
                           IF get_ok /\ Parses(o.body)
                               THEN poll' = [polled EXCEPT !.pc = "done", !.ret = "result",
                                                           !.result_key = o.key,
                                                           !.result = o.body]
                               ELSE poll' = AfterFailure(polled)
    /\ UNCHANGED <<last, requestStore, responseStore, inv, http>>

\* Lines 158 and 162: time.sleep(poll_interval).  A negative interval raises
\* ValueError; raised at line 158 it is caught at line 160 and raised again at
\* line 162, outside any try, so it leaves the function.
PollSleep ==
    /\ poll.pc \in {"sleep", "retry"}
    /\ IF poll.interval < 0
           THEN /\ poll' = [poll EXCEPT !.pc = "done", !.ret = "raised"]
                /\ UNCHANGED now
           ELSE /\ poll' = [poll EXCEPT !.pc = "check"]
                /\ now' = SleepEnds(now, poll.interval)
    /\ UNCHANGED <<last, requestStore, responseStore, inv, http>>

\* submit_translation_request(request_data): the key the request is stored under
\* (line 98) and the store after the put_object of lines 104-116.
SubmitKey(request) == RequestKey(request.request_id)

SubmitTranslationRequest(store, request, t) ==
    PutObject(store, SubmitKey(request), Body("dict", request), t)

\* A request whose caller-supplied request_id begins with the request_id of ReqR1
\* followed by "_translated".
ReqR1Suffixed == MkRequest(RequestFields, <<"r1", "_translated", "_x">>,
                           TextsList(<<DictItem(0, <<"a">>)>>))

\* The request bucket after the client submitted the three requests.
SubmittedRequests ==
    SubmitTranslationRequest(
        SubmitTranslationRequest(SubmitTranslationRequest(EmptyStore, ReqR1, 0), ReqR2, 0),
        ReqR1Suffixed, 0)

\* Every call succeeds and every text is translated to "x".
AllOk == RecordOracle(TRUE, TRUE, <<[ok |-> TRUE, text |-> <<"x">>],
                                    [ok |-> TRUE, text |-> <<"x">>]>>)

\* While the client waits, the ingestion handler is triggered for a submitted
\* request and handles it successfully at the current second.
IngestNow ==
    /\ poll.pc \in {"check", "list", "sleep", "retry"}
    /\ Cardinality(responseStore) < MaxObjects
    /\ \E o \in requestStore :
           responseStore' = HandleObject(o.key, AllOk, requestStore, responseStore, now).store
    /\ UNCHANGED <<last, requestStore, now, inv, poll, http>>

InitPoll ==
    /\ poll = IdlePoll
    /\ responseStore = EmptyStore
    /\ requestStore = SubmittedRequests
    /\ now = 0
    /\ last = IdleLast
    /\ inv = IdleInv
    /\ http = IdleHttp

NextPoll == PollStart \/ PollCheck \/ PollList \/ PollSleep \/ IngestNow

SpecPoll == InitPoll /\ [][NextPoll]_vars

\* The client's thread runs on: a call that can take a step takes one.
SpecPollFair == SpecPoll /\ WF_vars(PollCheck \/ PollList \/ PollSleep)

\* ------------------------------------------------------------ concurrent invocations
\* A second request of the client with the request_id of ReqR1 and other texts.
ReqR1b == MkRequest(RequestFields, <<"r1">>, TextsList(<<DictItem(0, <<"a", " ">>)>>))

SubmitSamples == {ReqR1, ReqR1b, ReqR2}

\* One invocation of the ingestion handler for an event of one record: where it
\* is, the key of the record, the second at which generate_output_key read the
\* clock, the output key and the result it built.
Worker(pc, key, t, output_key, result) ==
    [pc |-> pc, key |-> key, t |-> t, output_key |-> output_key, result |-> result]

IdleWorker == Worker("idle", <<>>, 0, <<>>, NoBody)

\* The client stores a request (lines 98-116 of the client).
Submit ==
    /\ now <= MaxTime
    /\ \E request \in SubmitSamples :
           /\ ~(HasKey(requestStore, SubmitKey(request))
                    /\ GetObject(requestStore, SubmitKey(request)).body.value = request)
           /\ requestStore' = SubmitTranslationRequest(requestStore, request, now)
    /\ UNCHANGED <<last, responseStore, now, inv, poll, http>>

\* The store notifies the handler of a stored request object; a notification can
\* be delivered to more than one invocation.
Trigger(w) ==
    /\ inv[w].pc = "idle"
    /\ \E o \in requestStore : inv' = [inv EXCEPT ![w] = Worker("start", o.key, 0, <<>>, NoBody)]
    /\ UNCHANGED <<last, requestStore, responseStore, now, poll, http>>

\* Lines 35-50 of the handler in invocation w: the object is read, validated and
\* translated and the output key is generated, all calls succeeding.
Prepare(w) ==
    /\ inv[w].pc = "start"
    /\ LET h == HandleObject(inv[w].key, AllOk, requestStore, EmptyStore, now)
       IN  inv' = [inv EXCEPT ![w] =
                       IF h.outcome = "written"
                           THEN Worker("upload", inv[w].key, now, h.wrote,
                                       GetObject(h.store, h.wrote).body)
                           ELSE Worker("done", inv[w].key, now, <<>>, NoBody)]
    /\ UNCHANGED <<last, requestStore, responseStore, now, poll, http>>

\* Line 53 of the handler in invocation w: upload_result_to_s3.
Upload(w) ==
    /\ inv[w].pc = "upload"
    /\ responseStore' = PutObject(responseStore, inv[w].output_key, inv[w].result, now)
    /\ inv' = [inv EXCEPT ![w].pc = "done"]
    /\ UNCHANGED <<last, requestStore, now, poll, http>>

\* A second passes.
Tick ==
    /\ now < MaxTime
    /\ now' = now + 1
    /\ UNCHANGED <<last, requestStore, responseStore, inv, poll, http>>

InitConcurrent ==
    /\ inv = [w \in 1..MaxInvocations |-> IdleWorker]
    /\ requestStore = EmptyStore
    /\ responseStore = EmptyStore
    /\ now = 0
    /\ last = IdleLast
    /\ poll = IdlePoll
    /\ http = IdleHttp

NextConcurrent ==
    \/ Submit
    \/ \E w \in 1..MaxInvocations : Trigger(w) \/ Prepare(w) \/ Upload(w)
    \/ Tick

SpecConcurrent == InitConcurrent /\ [][NextConcurrent]_vars

\* ------------------------------------------------------------ the four operations
\* The ingestion handler is triggered for a stored request object and handles it
\* at the current second, all calls succeeding.
Ingest ==
    /\ now <= MaxTime
    /\ \E o \in requestStore :
           /\ responseStore' = HandleObject(o.key, AllOk, requestStore, responseStore, now).store
           /\ responseStore' # responseStore
           /\ Cardinality(responseStore') <= MaxObjects
    /\ UNCHANGED <<last, requestStore, now, inv, poll, http>>

\* The client waits for the result of r1 with timeout 1 and poll interval 1.
CoreWait == WaitStart({1}, {1})

\* The retrieval handler is asked for the key of a result of r1.
CoreRetrieve ==
    RetrieveOf({Event("present", GenerateOutputKey(RequestKey(<<"r1">>), 0))})

InitCore ==
    /\ requestStore = EmptyStore
    /\ responseStore = EmptyStore
    /\ now = 0
    /\ last = IdleLast
    /\ inv = IdleInv
    /\ poll = IdlePoll
    /\ http = IdleHttp

NextCore ==
    \/ Submit \/ Ingest \/ Tick
    \/ CoreWait \/ PollCheck \/ PollList \/ PollSleep
    \/ CoreRetrieve

SpecCore == InitCore /\ [][NextCore]_vars

\* ------------------------------------------------------------ claims C1, C2
\* The texts the last call was given, by position, and which of them are strings.
InputTexts ==
    IF last.op = "process_translation"
        THEN [i \in 1..Len(last.request.texts.items) |->
                 TextToTranslate(last.request.texts.items[i])]
        ELSE last.texts

InputIsString(i) ==
    last.op = "process_translation" => CanStrip(last.request.texts.items[i])

InputBlank(i) == InputIsString(i) /\ Strip(InputTexts[i]) = <<>>
InputNonBlank(i) == InputIsString(i) /\ Strip(InputTexts[i]) # <<>>

RECURSIVE SumLen(_, _)
SumLen(texts, keep) ==
    IF texts = <<>> THEN 0
    ELSE (IF keep[Len(texts)] THEN Len(texts[Len(texts)]) ELSE 0)
             + SumLen(SubSeq(texts, 1, Len(texts) - 1), keep)

Returned(op) == last.op = op /\ last.done /\ last.out.ok

AllNonBlank == \A i \in 1..Len(InputTexts) : InputNonBlank(i)

\* The part of C1 that does not depend on what the service returns: N entries, in
\* input order, and total_characters the sum of the original lengths.
C1_Shape ==
    LET tr == last.out.result.translations
    IN  /\ Len(tr) = Len(InputTexts)
        /\ \A i \in 1..Len(tr) :
               /\ tr[i].original_text = InputTexts[i]
               /\ tr[i].character_count = Len(InputTexts[i])
        /\ last.out.result.translation_metadata.total_characters
               = SumLen(InputTexts, [i \in 1..Len(InputTexts) |-> TRUE])
        /\ last.out.result.translation_metadata.total_texts = Len(InputTexts)

\* C1 as stated: for a valid request whose N items are all non-blank, the result of
\* process_translation has N entries in input order, each with a nonempty
\* translated_text, and total_characters is the sum of the original lengths.
C1_AsStated ==
    (Returned("process_translation") /\ AllNonBlank)
        => /\ C1_Shape
           /\ \A i \in 1..Len(InputTexts) :
                  last.out.result.translations[i].translated_text # <<>>

\* C1, amended: for a valid request whose N items are all non-blank, the result of
\* process_translation has N entries in input order, each with the translated_text
\* the translation service returned for that item (nonempty exactly when the
\* service's text is), and total_characters is the sum of the original lengths.
C1_ResultShape ==
    (Returned("process_translation") /\ AllNonBlank)
        => /\ C1_Shape
           /\ \A i \in 1..Len(InputTexts) :
                  last.out.result.translations[i].translated_text = last.oracle[i].text

\* Two non-blank items, one of them padded, translated to nonempty texts.
C1_Witness ==
    /\ Returned("process_translation") /\ AllNonBlank
    /\ Len(InputTexts) = 2
    /\ InputTexts[1] = <<" ", "b">>
    /\ \A i \in 1..2 : last.out.result.translations[i].translated_text # <<>>
    /\ last.out.result.translation_metadata.total_characters = 3

\* C2: in process_translation and in translate_direct, an item whose trimmed text
\* is empty is never sent to the translation service, and in the result its entry
\* has translated_text "" and character_count 0 and adds nothing to
\* total_characters.
C2_BlankSkipped ==
    (last.op \in {"process_translation", "translate_direct"} /\ last.done)
        => /\ \A i \in 1..Len(InputTexts) :
                  InputBlank(i) => \A c \in 1..Len(last.out.calls) : last.out.calls[c].item # i
           /\ last.out.ok =>
                  /\ \A i \in 1..Len(InputTexts) :
                         InputBlank(i) =>
                             /\ last.out.result.translations[i].translated_text = <<>>
                             /\ last.out.result.translations[i].character_count = 0
                  /\ last.out.result.translation_metadata.total_characters
                         = SumLen(InputTexts, [i \in 1..Len(InputTexts) |-> InputNonBlank(i)])

\* translate_direct returned for a whitespace-only text followed by a translated one.
C2_Witness ==
    /\ Returned("translate_direct")
    /\ Len(InputTexts) = 2
    /\ InputTexts[1] = <<"\t", " ">> /\ InputNonBlank(2)
    /\ Len(last.out.calls) = 1
    /\ last.out.result.translations[1].character_count = 0

\* ------------------------------------------------------------ claims C3, C4, C5
\* The request stored at a record's key is invalid in the claim's sense: a
\* required field is missing or the texts are empty.
InvalidAt(i) ==
    /\ inv.records[i].wellformed
    /\ HasKey(requestStore, inv.records[i].key)
    /\ LET body == GetObject(requestStore, inv.records[i].key).body
       IN  /\ body.kind = "dict"
           /\ \/ ~({"source_language", "target_language", "texts"} \subseteq body.value.fields)
              \/ body.value.texts.is_list /\ body.value.texts.items = <<>>

\* The response store holds a result derived from the key.
ResultWrittenFor(key) ==
    \E o \in responseStore : \E t \in 0..now : o.key = GenerateOutputKey(key, t)

\* The handler went on after record i: it is past it, and it cannot have returned
\* without attempting the next record.
WentOnAfter(i) ==
    /\ inv.i > i
    /\ (inv.pc = "done" /\ i < Len(inv.records)) => Len(inv.log) > i

\* What the records before i wrote is still in the response store.
EarlierResultsKept(i) ==
    \A j \in 1..(i - 1) :
        inv.log[j].outcome = "written" => HasKey(responseStore, inv.log[j].wrote)

\* C3: an object whose request is invalid is skipped: no call of the translation
\* service is made for it and no result object is written for its key; the skip
\* does not end the batch: the handler goes on to the next record and keeps what
\* the other records wrote.
C3_InvalidSkipped ==
    \A i \in 1..Len(inv.log) :
        InvalidAt(i) =>
            /\ inv.log[i].calls = <<>>
            /\ inv.log[i].wrote = <<>>
            /\ ~ResultWrittenFor(inv.records[i].key)
            /\ WentOnAfter(i)
            /\ EarlierResultsKept(i)

\* A batch of a valid request and then one without target_language, finished: the
\* first is written, the second skipped.
C3_Witness ==
    /\ inv.pc = "done" /\ inv.status = 200
    /\ Len(inv.records) = 2
    /\ inv.records[2].key = KeyOf("no_target") /\ InvalidAt(2)
    /\ inv.log[1].outcome = "written"
    /\ inv.log[2].outcome = "invalid"
    /\ Cardinality(responseStore) = 1

\* The translation service failed on an item of the object of log entry e.
AdapterFailed(e) ==
    \E c \in 1..Len(e.calls) : ~e.oracle.adapter[e.calls[c].item].ok

\* C4: if the translation service fails on an item of an object, no result object
\* is written for that object, however many of its items were translated before,
\* and the handler goes on to the next record: every object of the response store
\* was written for a record whose calls all succeeded.
C4_NoPartialResult ==
    /\ \A i \in 1..Len(inv.log) :
           AdapterFailed(inv.log[i]) =>
               /\ inv.log[i].wrote = <<>>
               /\ WentOnAfter(i)
               /\ EarlierResultsKept(i)
    /\ \A o \in responseStore :
           /\ \E j \in 1..Len(inv.log) :
                  ~AdapterFailed(inv.log[j]) /\ inv.log[j].wrote = o.key
           /\ Len(o.body.value.translations)
                  = Len(o.body.value.original_request.texts.items)

\* The service translated the first item of r1 and failed on the second; nothing
\* was written for r1, and the next record, r2, was written.
C4_Witness ==
    /\ inv.pc = "done" /\ inv.status = 200
    /\ Len(inv.records) = 2
    /\ inv.records[1].key = RequestKey(<<"r1">>)
    /\ Len(inv.log[1].calls) = 2 /\ AdapterFailed(inv.log[1])
    /\ inv.log[2].outcome = "written"
    /\ ~ResultWrittenFor(RequestKey(<<"r1">>))
    /\ ResultWrittenFor(RequestKey(<<"r2">>))

\* The iteration over the records has begun.
IterationBegun == inv.env_ok /\ inv.has_records

\* C5 as stated: the handler reports 500 only when an error occurs before the
\* iteration begins; once it has begun, every record is attempted and 200 is
\* reported.
C5_AsStated ==
    inv.pc = "done" =>
        /\ inv.status = 500 => ~IterationBegun
        /\ IterationBegun =>
               /\ inv.status = 200
               /\ Len(inv.log) = Len(inv.records)
               /\ \A i \in 1..Len(inv.log) : inv.log[i].outcome # "aborted"

\* ------------------------------------------------------------ claim C6
\* The results under the prefix the waiting client lists.
Matches == ListObjects(responseStore, ResultPrefix(poll.request_id))

\* Every result of a successful ingestion of a request stored under
\* translation_request_<request_id>.json lies under the prefix
\* translation_request_<request_id>_translated.
ResultsUnderPrefix ==
    \A o \in responseStore :
        IsPrefix(ResultPrefix(o.body.value.original_request.request_id), o.key)

\* C6 as stated (with every store call of the client succeeding and a poll
\* interval >= 0): the result of a successful ingestion lies under the prefix, and
\* a call that was still polling before its deadline when the result was stored
\* returns a result and not the timeout indication.
C6_AsStated ==
    /\ ResultsUnderPrefix
    /\ (/\ poll.pc = "done" /\ poll.errors = 0 /\ poll.interval >= 0
        /\ \E o \in Matches : o.last_modified < poll.start + poll.timeout)
           => poll.ret = "result"

\* C6, amended: the result of a successful ingestion of a request stored under
\* translation_request_<request_id>.json lies under the prefix
\* translation_request_<request_id>_translated, and a poll of
\* wait_for_translation_result(request_id) that begins before the deadline while
\* such a result is stored, and whose listing and fetch succeed, returns the latest
\* result under that prefix; a call whose last poll came before the result was
\* stored returns the timeout indication although the result arrived before the
\* deadline.
C6_PollFindsResult ==
    /\ []ResultsUnderPrefix
    /\ [][(poll.pc = "list" /\ poll'.polls = poll.polls + 1
               /\ poll'.errors = poll.errors /\ Matches # {})
              => /\ poll'.pc = "done" /\ poll'.ret = "result"
                 /\ \E o \in Latest(Matches) :
                        poll'.result_key = o.key /\ poll'.result = o.body]_vars

\* The first poll found nothing, the request was ingested during the sleep, and
\* the second poll returned the result.
C6_Witness ==
    /\ poll.pc = "done" /\ poll.ret = "result"
    /\ poll.polls = 2 /\ poll.errors = 0
    /\ IsPrefix(ResultPrefix(<<"r1">>), poll.result_key)
    /\ poll.result.value.original_request = ReqR1

\* ------------------------------------------------------------ claims C7, C8
\* C7: the retrieval handler maps the outcome of the single fetch of the key: the
\* object present gives 200 and the stored body verbatim; no object at the key
\* gives 404 and the "not found or still processing" body; any other failure
\* gives 500 and one fixed generic body.
C7_FetchMapping ==
    [][(http'.seq # http.seq /\ http'.event.path = "present") =>
          /\ ~http'.raised /\ http'.reads = 1
          /\ IF ~http'.fetch_ok
                 THEN /\ http'.status = 500
                      /\ http'.message = "An internal server error occurred."
                      /\ http'.content = NoBody
             ELSE IF HasKey(responseStore, http'.event.request_id)
                 THEN /\ http'.status = 200
                      /\ http'.message = ""
                      /\ http'.content = GetObject(responseStore, http'.event.request_id).body
             ELSE /\ http'.status = 404
                  /\ http'.message = "Translation not found or still processing."
                  /\ http'.content = NoBody]_vars

\* A stored result was returned with 200.
C7_Witness ==
    /\ http.pc = "done" /\ http.status = 200
    /\ http.event.request_id = GenerateOutputKey(RequestKey(<<"r1">>), 0)
    /\ http.content.kind = "dict"
    /\ Len(http.content.value.translations) = 2

\* C8 as stated: whenever the event carries no request_id (no pathParameters, a
\* null pathParameters, or no request_id in it), the handler returns 400 and does
\* not read the response store.
C8_AsStated ==
    (http.pc = "done" /\ http.event.path # "present")
        => ~http.raised /\ http.status = 400 /\ http.reads = 0

\* ------------------------------------------------------------ claims C9, C10
Polling == poll.pc \in {"check", "list", "sleep", "retry"}
Elapsed == now - poll.start

\* No poll begins at or after the deadline, and None is returned only at or after
\* it.
StopsAtDeadline ==
    /\ poll.pc = "list" => Elapsed < poll.timeout
    /\ (poll.pc = "done" /\ poll.ret = "timeout") => Elapsed >= poll.timeout

\* A step of the call writes to and deletes from neither store.
PollingWritesNothing ==
    [][poll' # poll => UNCHANGED <<requestStore, responseStore>>]_vars

\* C9 as stated: for every timeout, poll interval and store behaviour the call
\* ends, returning a value (a result, or None once the deadline is reached) rather
\* than raising, and it writes to neither store.
C9_AsStated ==
    /\ [](Polling => <>(poll.pc = "done" /\ poll.ret # "raised"))
    /\ [](poll.ret # "raised" /\ StopsAtDeadline)
    /\ PollingWritesNothing

\* C9, amended: for every timeout, every poll interval >= 0 and every store
\* behaviour the call ends, returning a value (a result, or None once the deadline
\* is reached) rather than raising; it polls no more once the deadline is reached
\* and writes to neither store.  (A negative poll interval makes time.sleep raise
\* ValueError out of the except clause.)
C9_Terminates ==
    /\ []((Polling /\ poll.interval >= 0) => <>(poll.pc = "done" /\ poll.ret # "raised"))
    /\ [](poll.interval >= 0 => (poll.ret # "raised" /\ StopsAtDeadline))
    /\ PollingWritesNothing

\* The call returned None after two polls, one of which failed, with no result in
\* the store.
C9_Witness ==
    /\ poll.pc = "done" /\ poll.ret = "timeout"
    /\ poll.timeout = 2 /\ poll.interval = 1
    /\ poll.polls = 2 /\ poll.errors = 1
    /\ ListObjects(responseStore, ResultPrefix(poll.request_id)) = {}

\* C10: when no matching result is ever present, a call with timeout T > 0 and
\* poll interval P that returns the timeout indication has listed the store at
\* least once and returns no earlier than T and, with instantaneous store calls,
\* no later than T + P after it started; with T = 1 and P = 1 it returns after 1
\* to 2 poll intervals.
C10_TimeoutWindow ==
    (/\ poll.pc = "done" /\ poll.ret = "timeout" /\ poll.timeout > 0
     /\ ListObjects(responseStore, ResultPrefix(poll.request_id)) = {})
        => /\ poll.polls >= 1
           /\ Elapsed >= poll.timeout
           /\ poll.delay = 0 => Elapsed <= poll.timeout + poll.interval
           /\ (poll.delay = 0 /\ poll.timeout = 1 /\ poll.interval = 1)
                  => (Elapsed \in 1..2 /\ poll.polls = 1)

\* With timeout 1 and poll interval 1 and nothing in the store, None was returned
\* one poll interval after the start.
C10_Witness ==
    /\ poll.pc = "done" /\ poll.ret = "timeout"
    /\ poll.timeout = 1 /\ poll.interval = 1 /\ poll.delay = 0
    /\ responseStore = EmptyStore
    /\ Elapsed = 1 /\ poll.polls = 1

\* ------------------------------------------------------------ claims C11, C12
\* C11: a poll whose listing returns one or more objects under the prefix fetches
\* an object with the latest last-modified time among them and, when the fetch and
\* the parse succeed, returns its content; it returns no older match, and when the
\* fetch or the parse fails it returns nothing from that poll.
C11_ReturnsLatest ==
    [][(poll.pc = "list" /\ poll'.polls = poll.polls + 1 /\ Matches # {})
          => \/ /\ poll'.pc = "done" /\ poll'.ret = "result"
                /\ \E o \in Matches :
                       /\ poll'.result_key = o.key /\ poll'.result = o.body
                       /\ \A p \in Matches : p.last_modified <= o.last_modified
             \/ /\ poll'.pc = "retry" /\ poll'.ret = "pending"
                /\ poll'.errors = poll.errors + 1]_vars

\* Two results of r1 with different times were listed and the newer one was
\* returned.
C11_Witness ==
    /\ poll.pc = "done" /\ poll.ret = "result"
    /\ \E o \in Matches, p \in Matches :
           /\ p.last_modified < o.last_modified
           /\ poll.result_key = o.key /\ poll.result = o.body

\* The deadline of the running call.
Deadline == poll.start + poll.timeout

\* C12 as stated (for a poll interval >= 0): no store failure leaves the call, and
\* once a poll has failed while a result is readable under the prefix before the
\* deadline, the call returns a result unless a later poll fails too.
C12_AsStated ==
    /\ [](poll.interval >= 0 => poll.ret # "raised")
    /\ [](\A n \in 1..(MaxTimeout + 1) :
              (/\ poll.pc = "retry" /\ poll.interval >= 0 /\ poll.errors = n
               /\ Matches # {} /\ now < Deadline)
                  => <>(poll.ret = "result" \/ poll.errors > n))

\* C12, amended: with a poll interval >= 0 a store failure during a poll (a
\* failing listing, or a failing fetch or parse of a listed object) never leaves
\* the call: the client sleeps one poll interval and checks the deadline; when the
\* sleep ends before the deadline it polls again, and a later poll that lists a
\* result and fetches and parses it returns it.  When the sleep after a failed poll
\* ends at or after the deadline the call returns the timeout indication, also
\* when a result became readable before the deadline.
C12_RetriesBeforeDeadline ==
    /\ [](poll.interval >= 0 => poll.ret # "raised")
    /\ [][(poll.pc = "retry" /\ poll.interval >= 0 /\ poll' # poll)
             => /\ poll'.pc = "check" /\ poll'.ret = "pending"
                /\ now' = now + poll.interval]_vars
    /\ [][(poll.pc = "check" /\ poll.errors > 0 /\ poll' # poll)
             => IF now < Deadline THEN poll'.pc = "list"
                ELSE poll'.pc = "done" /\ poll'.ret = "timeout"]_vars
    /\ [][(/\ poll.pc = "list" /\ poll.errors > 0 /\ poll'.polls = poll.polls + 1
           /\ poll'.errors = poll.errors /\ Matches # {})
             => poll'.pc = "done" /\ poll'.ret = "result"]_vars
    /\ []((poll.pc = "retry" /\ poll.interval >= 0 /\ now + poll.interval < Deadline)
              => <>(poll.pc = "list"))

\* The first poll failed, the second one returned the result.
C12_Witness ==
    /\ poll.pc = "done" /\ poll.ret = "result"
    /\ poll.errors = 1 /\ poll.polls = 2
    /\ poll.interval > 0

\* ------------------------------------------------------------ claims C13, C14
\* The invocations that have uploaded a result.
Writers == {w \in 1..MaxInvocations : inv[w].pc = "done" /\ inv[w].output_key # <<>>}

\* C13 as stated: each invocation writes its result to a key distinct from the
\* key written by every other invocation.
C13_AsStated ==
    \A v \in Writers, w \in Writers : v # w => inv[v].output_key # inv[w].output_key

\* C13, amended: two invocations write to distinct keys of the response store
\* whenever their input keys differ in the part before the extension or they
\* generate their output keys in different seconds; invocations for input keys
\* with the same part before the extension that generate the key in the same
\* second write to the same key, and the later upload replaces the earlier one.
C13_DistinctUnlessSameSecond ==
    /\ \A v \in Writers, w \in Writers :
           (inv[v].output_key = inv[w].output_key)
               <=> (SplitExtRoot(inv[v].key) = SplitExtRoot(inv[w].key) /\ inv[v].t = inv[w].t)
    /\ \A w \in Writers : HasKey(responseStore, inv[w].output_key)

\* Two invocations for the same request object generated their keys in different
\* seconds and both results are in the response store.
C13_Witness ==
    /\ \A w \in 1..2 : inv[w].pc = "done" /\ inv[w].output_key # <<>>
    /\ inv[1].key = inv[2].key /\ inv[1].t # inv[2].t
    /\ inv[1].output_key # inv[2].output_key
    /\ HasKey(responseStore, inv[1].output_key) /\ HasKey(responseStore, inv[2].output_key)

Keys(store) == {o.key : o \in store}

\* Every object of the store is still there with its content after the step.
Kept(store, after) == \A o \in store : \E p \in after : p.key = o.key /\ p.body = o.body

FailingItems == {i \in 1..Len(InputTexts) : InputNonBlank(i) /\ ~last.oracle[i].ok}

\* C15: when the translation service fails on an item, translate_direct raises to
\* its caller and returns no result, having called the service for the non-blank
\* items up to the failing one and for none after it; it returns a result only
\* when every non-blank item was translated, and then with an entry for every
\* item.
C15_DirectAllOrNothing ==
    (last.op = "translate_direct" /\ last.done)
        => /\ last.out.ok <=> FailingItems = {}
           /\ ~last.out.ok =>
                  /\ last.out.result = NoResult
                  /\ \A i \in 1..Len(InputTexts) :
                         (\E c \in 1..Len(last.out.calls) : last.out.calls[c].item = i)
                             <=> (InputNonBlank(i) /\ \A f \in FailingItems : i <= f)
           /\ last.out.ok =>
                  /\ Len(last.out.result.translations) = Len(InputTexts)
                  /\ \A i \in 1..Len(InputTexts) :
                         InputNonBlank(i) =>
                             /\ \E c \in 1..Len(last.out.calls) : last.out.calls[c].item = i
                             /\ last.out.result.translations[i].translated_text
                                    = last.oracle[i].text

\* The service failed on the first of two non-blank texts: the call raised after
\* one call to the service.
C15_Witness ==
    /\ last.op = "translate_direct" /\ last.done /\ ~last.out.ok
    /\ Len(InputTexts) = 2 /\ InputNonBlank(1) /\ InputNonBlank(2)
    /\ ~last.oracle[1].ok /\ last.oracle[2].ok
    /\ Len(last.out.calls) = 1

\* ------------------------------------------------------------ claims C16, C17
\* C16 as stated: every invocation of the retrieval handler ends with a response
\* of status 200, 400, 404 or 500 that carries the headers
\* Content-Type: application/json and Access-Control-Allow-Origin: *.
C16_AsStated ==
    http.pc = "done"
        => /\ ~http.raised
           /\ http.status \in {200, 400, 404, 500}
           /\ http.headers = CorsHeaders

\* The response of the step's call is the one of the call before it.
SameResponse ==
    /\ http'.raised = http.raised /\ http'.status = http.status
    /\ http'.message = http.message /\ http'.content = http.content
    /\ http'.headers = http.headers

C18_Construction ==
    LET request == last.out.result
    IN  /\ last.out.ok /\ last.out.calls = <<>>
        /\ requestStore = EmptyStore /\ responseStore = EmptyStore
        /\ request.texts.is_list
        /\ Len(request.texts.items) = Len(last.texts)
        /\ \A i \in 1..Len(last.texts) :
               request.texts.items[i] = DictItem(i - 1, last.texts[i])
        /\ request.source_language = last.args.source_language
        /\ request.target_language = last.args.target_language

\* C18 as stated: a supplied request_id is carried unchanged, and one is generated
\* from the current time only when none is supplied.
C18_AsStated ==
    (last.op = "create_translation_request" /\ last.done)
        => /\ C18_Construction
           /\ last.out.result.request_id =
                  IF last.args.request_id.given THEN last.args.request_id.value
                  ELSE GeneratedRequestId(now)

\* C18, amended: create_translation_request returns a request whose texts are the
\* inputs in the same order, each as an (id, text) pair with the 0-based position
\* as id, with the languages unchanged and a supplied non-empty request_id
\* unchanged; when no request_id or an empty one is supplied the request_id is
\* generated from the current time.  It calls neither the stores nor the
\* translation service.
C18_CreateRequest ==
    (last.op = "create_translation_request" /\ last.done)
        => /\ C18_Construction
           /\ last.out.result.request_id =
                  IF last.args.request_id.given /\ last.args.request_id.value # <<>>
                      THEN last.args.request_id.value
                      ELSE GeneratedRequestId(now)

\* Two texts and the request_id r1 were made into a request.
C18_Witness ==
    /\ last.op = "create_translation_request" /\ last.done
    /\ Len(last.texts) = 2 /\ last.texts[1] # last.texts[2]
    /\ last.args.request_id = RequestIdArg(<<"r1">>)
    /\ last.out.result.request_id = <<"r1">>
    /\ last.out.result.texts.items[2] = DictItem(1, last.texts[2])

\* ------------------------------------------------------------ claims C19, C20
\* C19 as stated: a result returned by wait_for_translation_result(request_id) was
\* written by an ingestion of the object stored under
\* translation_request_<request_id>.json and belongs to the request with that
\* request_id.
C19_AsStated ==
    (poll.pc = "done" /\ poll.ret = "result")
        => /\ poll.result.value.original_request.request_id = poll.request_id
           /\ \E o \in responseStore :
                  /\ o.key = poll.result_key
                  /\ o.key = GenerateOutputKey(RequestKey(poll.request_id), o.last_modified)

\* The results the ingestion handler has stored for the request submitted with
\* request_id R.
ResultsOf(R) ==
    {o \in responseStore :
        /\ o.key = GenerateOutputKey(RequestKey(R), o.last_modified)
        /\ o.body.kind = "dict"
        /\ o.body.value.original_request.request_id = R}

\* C20 as stated: a retrieval call whose request_id path parameter is R, the
\* fetch not failing, returns 200 with the stored result once the ingestion
\* handler has stored the result of R, and 404 only while it has not.
C20_AsStated ==
    [][(/\ http'.seq # http.seq /\ http'.event.path = "present" /\ http'.fetch_ok
        /\ http'.event.request_id = <<"r1">>)
          => IF ResultsOf(<<"r1">>) # {}
                 THEN /\ http'.status = 200
                      /\ \E o \in ResultsOf(<<"r1">>) : http'.content = o.body
                 ELSE http'.status = 404]_vars

\* ------------------------------------------------------------ claim C21
\* The calls a run over the texts makes when the service fails first at item f
\* (0 for never): one per non-blank item up to f, in input order.
RECURSIVE ExpectedCalls(_, _)
ExpectedCalls(texts, f) ==
    IF texts = <<>> THEN <<>>
    ELSE LET n == Len(texts)
             before == ExpectedCalls(SubSeq(texts, 1, n - 1), f)
         IN  IF Strip(texts[n]) # <<>> /\ (f = 0 \/ n <= f)
                 THEN Append(before, [item |-> n, text |-> texts[n]])
                 ELSE before

FirstFailing ==
    IF FailingItems = {} THEN 0
    ELSE CHOOSE f \in FailingItems : \A g \in FailingItems : f <= g

\* C21: for every list of strings and the translation service answering both
\* alike, translate_direct(texts, s, t) and process_translation applied to the
\* request create_translation_request builds from the same texts, s and t make the
\* same calls to the service, one per non-blank item in input order, both raise or
\* both return, and the results have the same translations, total_texts,
\* total_characters and languages; the direct one carries the method tag, the
\* other the original request.
C21_DirectMatchesRequest ==
    (last.op = "direct_and_request" /\ last.done)
        => /\ last.out.calls = last.out2.calls
           /\ last.out.calls = ExpectedCalls(last.texts, FirstFailing)
           /\ last.out.ok = last.out2.ok
           /\ last.out.ok =>
                  LET direct == last.out.result
                      stored == last.out2.result
                  IN  /\ direct.translations = stored.translations
                      /\ Len(direct.translations) = Len(last.texts)
                      /\ direct.translation_metadata.total_texts
                             = stored.translation_metadata.total_texts
                      /\ direct.translation_metadata.total_characters
                             = stored.translation_metadata.total_characters
                      /\ direct.translation_metadata.source_language
                             = stored.translation_metadata.source_language
                      /\ direct.translation_metadata.target_language
                             = stored.translation_metadata.target_language
                      /\ direct.translation_metadata.method = "direct"
                      /\ stored.original_request = last.request

\* A blank text and a padded one went through both paths: one call each, and the
\* same two entries.
C21_Witness ==
    /\ last.op = "direct_and_request" /\ last.done /\ last.out.ok /\ last.out2.ok
    /\ last.texts = << <<" ">>, <<" ", "b">> >>
    /\ Len(last.out.calls) = 1 /\ Len(last.out2.calls) = 1
    /\ last.out2.result.translations[2].translated_text = <<"x">>
    /\ last.out.result.translations = last.out2.result.translations

====
